---- MODULE Spec2Model ----
(***************************************************************************)
(* System Health Monitor (Level 3, src/01_Folder/04_project.py).           *)
(*                                                                         *)
(* One process run is: HealthMonitor() loads STATE_FILE, run() reads the   *)
(* server list, handles the servers one after the other (probe, classify,  *)
(* should_alert, send_alert) and finally writes STATE_FILE.  The state     *)
(* file is the only thing that survives from one run to the next.          *)
(*                                                                         *)
(* Times are in hundredths of a second (check_server rounds to 2 places).  *)
(***************************************************************************)
EXTENDS Integers, Sequences, FiniteSets, TLC

\* ---------------------------------------------------------------- bounds
MaxThreshold == 3        \* ALERT_THRESHOLD is drawn from 0..MaxThreshold
MaxFailures == 5         \* a record's failure count is not driven beyond this
MaxServers == 2
MaxInterrupts == 1          \* longest server list read by load_servers

\* ------------------------------------------------------------- constants
MAX_RESPONSE_TIME == 200 \* float(os.environ.get("MAX_RESPONSE_TIME", "2.0"))

\* endpoint identities, f"{server['method']}:{server['url']}"
Keys == {"GET:a", "POST:b"}

\* what the HTTP request of check_server can do
ProbeResults == {"200", "500", "timeout", "connection_error"}

\* response_time values around the SLA limit
Elapsed == {MAX_RESPONSE_TIME - 1, MAX_RESPONSE_TIME, MAX_RESPONSE_TIME + 1}

\* what the POST to the Slack webhook can do
PostResults == {"ok", "http_error", "timeout"}

Min(a, b) == IF a < b THEN a ELSE b
Max(a, b) == IF a > b THEN a ELSE b

RECURSIVE SeqsUpTo(_, _)
SeqsUpTo(S, n) ==
    IF n = 0 THEN {<<>>}
    ELSE LET shorter == SeqsUpTo(S, n - 1)
         IN  shorter \cup {Append(s, x) : s \in shorter, x \in S}

NoDuplicates(list) == \A m, n \in 1..Len(list) : list[m] = list[n] => m = n

\* the server lists servers.json can hold: each endpoint is listed once
ServerLists == {list \in SeqsUpTo(Keys, MaxServers) : NoDuplicates(list)}

VARIABLES
    config,           \* the environment and servers.json the process finds, fixed per deployment
    interrupts,       \* runs ended from outside so far
    ALERT_THRESHOLD,  \* int(os.environ.get("ALERT_THRESHOLD", "2")), fixed per deployment
    disk,             \* STATE_FILE: [exists, text]
    pc,               \* "idle" | "running" | "done" | "crashed" | "halted"
    state,            \* self.state: a mapping from keys to records
    servers,          \* the list run() iterates over
    i,                \* position of the for loop in servers (1-based)
    last,             \* the latest loop iteration, in full when it checked the watched endpoint
    watched,          \* the endpoint under observation (any one of Keys)
    run_down,         \* its DOWN checks in a row since its record was HEALTHY
    down_alerts,      \* DOWN alerts attempted in that row of DOWN checks (at most 2 counted)
    since_down,       \* RECOVERED alerts since its latest DOWN alert (-1: none yet; at most 2 counted)
    lost,             \* whether the delivery of a DOWN alert of that row failed
    log               \* its checks from the first one on, while the probes read fail, ..., fail, success

vars == <<config, interrupts, ALERT_THRESHOLD, disk, pc, state, servers, i, last,
          watched, run_down, down_alerts, since_down, lost, log>>

\* ------------------------------------------------------- STATE_FILE as JSON
DigitChars == <<"0", "1", "2", "3", "4", "5", "6", "7", "8", "9">>

\* the decimal text json.dump writes for a non-negative int
RECURSIVE IntToText(_)
IntToText(n) ==
    IF n < 10 THEN <<DigitChars[n + 1]>>
    ELSE IntToText(n \div 10) \o <<DigitChars[(n % 10) + 1]>>

DigitValue(c) == CHOOSE d \in 0..9 : DigitChars[d + 1] = c

\* the int json.load reads from a decimal text
RECURSIVE TextToInt(_)
TextToInt(t) ==
    IF Len(t) = 1 THEN DigitValue(t[1])
    ELSE 10 * TextToInt(SubSeq(t, 1, Len(t) - 1)) + DigitValue(t[Len(t)])

BoolToText(b) == IF b THEN "true" ELSE "false"

\* bool(text): every non-empty text is true
TextToBool_truthy(t) == t # ""

TextToBool(t) == t = "true"

\* the members of a record by the type of their values: ints, bools, and
\* (in the records of the Level 2 program, 03_project.py) None
NumberFields == {"failures", "consecutive_failures"}
BoolFields == {"alerted"}

\* the JSON text of one value of a record
EncodeValue(field, v) ==
    IF field \in NumberFields THEN IntToText(v)
    ELSE IF field \in BoolFields THEN BoolToText(v)
    ELSE IF v = "None" THEN "null"
    ELSE v

\* the value json.load reads from the text of one member
DecodeValue(field, t) ==
    IF field \in NumberFields THEN TextToInt(t)
    ELSE IF field \in BoolFields THEN TextToBool(t)
    ELSE IF t = "null" THEN "None"
    ELSE t

\* json.dump(self.state, f, indent=2): one member per key, each an object
\* with the members of the record ("failures", a number, and "alerted",
\* true / false, for a record of should_alert)
JsonDump(mapping) ==
    [complete |-> TRUE,
     members  |-> [k \in DOMAIN mapping |->
                     [f \in DOMAIN mapping[k] |-> EncodeValue(f, mapping[k][f])]]]

\* json.load(f) of a text that decodes
JsonLoad(text) ==
    [k \in DOMAIN text.members |->
        [f \in DOMAIN text.members[k] |-> DecodeValue(f, text.members[k][f])]]

EmptyMapping == <<>>
NoFile == [exists |-> FALSE, text |-> [complete |-> FALSE, members |-> <<>>]]

\* load_state that never finds the file (it reads another path)
load_state_other_path(file) == EmptyMapping

\* HealthMonitor.load_state
load_state(file) ==
    IF file.exists
    THEN IF file.text.complete
         THEN JsonLoad(file.text)
         ELSE EmptyMapping          \* except json.JSONDecodeError
    ELSE EmptyMapping

\* save_state that writes the records of failing endpoints only
save_state_failing_only(mapping) ==
    [exists |-> TRUE,
     text   |-> JsonDump([k \in {x \in DOMAIN mapping : mapping[x].failures > 0} |->
                            mapping[k]])]

\* HealthMonitor.save_state
save_state(mapping) == [exists |-> TRUE, text |-> JsonDump(mapping)]

\* ------------------------------------------------------------- one check
\* the default record of should_alert's setdefault
FreshRecord == [failures |-> 0, alerted |-> FALSE]

\* check_server with "except requests.ConnectionError": a timeout escapes
check_server_narrow_except(result, elapsed) ==
    IF result = "timeout"
    THEN [raised |-> TRUE, is_up |-> FALSE, response_time |-> elapsed]
    ELSE [raised |-> FALSE, is_up |-> (result = "200"), response_time |-> elapsed]

\* HealthMonitor.check_server: every exception of the request is caught
check_server(result, elapsed) ==
    IF result \in {"timeout", "connection_error"}
    THEN [raised |-> FALSE, is_up |-> FALSE, response_time |-> elapsed]
    ELSE [raised |-> FALSE, is_up |-> (result = "200"), response_time |-> elapsed]

\* the classification with ">=" for ">": a response at the limit is SLOW
status_inclusive(is_up, response_time) ==
    IF ~is_up THEN "DOWN"
    ELSE IF response_time >= MAX_RESPONSE_TIME THEN "SLOW"
    ELSE "UP"

\* the classification in HealthMonitor.run
status(is_up, response_time) ==
    IF ~is_up THEN "DOWN"
    ELSE IF response_time > MAX_RESPONSE_TIME THEN "SLOW"
    ELSE "UP"

\* should_alert without "and not state['alerted']": alerts on every failure
\* from the threshold on
should_alert_every_failure(mapping, threshold, key, is_down) ==
    LET st0 == IF key \in DOMAIN mapping THEN mapping
               ELSE (key :> FreshRecord) @@ mapping
        rec == st0[key]
    IN  IF is_down
        THEN IF rec.failures + 1 >= threshold
             THEN [state |-> [st0 EXCEPT ![key] =
                                [failures |-> rec.failures + 1, alerted |-> TRUE]],
                   ret |-> "True"]
             ELSE [state |-> [st0 EXCEPT ![key] =
                                [failures |-> rec.failures + 1, alerted |-> rec.alerted]],
                   ret |-> "False"]
        ELSE IF rec.failures > 0
             THEN [state |-> [st0 EXCEPT ![key] =
                                [failures |-> 0, alerted |-> FALSE]],
                   ret |-> "RECOVERED"]
             ELSE [state |-> st0, ret |-> "False"]

\* should_alert with ">" for ">=": the alert comes one failure late
should_alert_off_by_one(mapping, threshold, key, is_down) ==
    LET st0 == IF key \in DOMAIN mapping THEN mapping
               ELSE (key :> FreshRecord) @@ mapping
        rec == st0[key]
    IN  IF is_down
        THEN IF rec.failures + 1 > threshold /\ ~rec.alerted
             THEN [state |-> [st0 EXCEPT ![key] =
                                [failures |-> rec.failures + 1, alerted |-> TRUE]],
                   ret |-> "True"]
             ELSE [state |-> [st0 EXCEPT ![key] =
                                [failures |-> rec.failures + 1, alerted |-> rec.alerted]],
                   ret |-> "False"]
        ELSE IF rec.failures > 0
             THEN [state |-> [st0 EXCEPT ![key] =
                                [failures |-> 0, alerted |-> FALSE]],
                   ret |-> "RECOVERED"]
             ELSE [state |-> st0, ret |-> "False"]

\* should_alert whose recovery branch forgets state["alerted"] = False
should_alert_keeps_alerted(mapping, threshold, key, is_down) ==
    LET st0 == IF key \in DOMAIN mapping THEN mapping
               ELSE (key :> FreshRecord) @@ mapping
        rec == st0[key]
    IN  IF is_down
        THEN IF rec.failures + 1 >= threshold /\ ~rec.alerted
             THEN [state |-> [st0 EXCEPT ![key] =
                                [failures |-> rec.failures + 1, alerted |-> TRUE]],
                   ret |-> "True"]
             ELSE [state |-> [st0 EXCEPT ![key] =
                                [failures |-> rec.failures + 1, alerted |-> rec.alerted]],
                   ret |-> "False"]
        ELSE IF rec.failures > 0
             THEN [state |-> [st0 EXCEPT ![key] =
                                [failures |-> 0, alerted |-> rec.alerted]],
                   ret |-> "RECOVERED"]
             ELSE [state |-> st0, ret |-> "False"]

\* HealthMonitor.should_alert: the new mapping and the value returned
\* ("True", "RECOVERED" or "False"), or "KeyError" when the record lacks
\* the member the code reads
should_alert(mapping, threshold, key, is_down) ==
    LET st0 == IF key \in DOMAIN mapping THEN mapping
               ELSE (key :> FreshRecord) @@ mapping
        rec == st0[key]
    IN  IF "failures" \notin DOMAIN rec
        THEN [state |-> st0, ret |-> "KeyError"]   \* state["failures"]
        ELSE IF is_down
        THEN LET failures == rec.failures + 1
             IN  IF failures >= threshold /\ "alerted" \notin DOMAIN rec
                 THEN [state |-> [st0 EXCEPT ![key].failures = failures],
                       ret |-> "KeyError"]         \* state["alerted"]
                 ELSE IF failures >= threshold /\ ~rec.alerted
                 THEN [state |-> [st0 EXCEPT ![key] =
                                    [failures |-> failures, alerted |-> TRUE]],
                       ret |-> "True"]
                 ELSE [state |-> [st0 EXCEPT ![key].failures = failures],
                       ret |-> "False"]
        ELSE IF rec.failures > 0
             THEN [state |-> [st0 EXCEPT ![key] =
                                [failures |-> 0, alerted |-> FALSE]],
                   ret |-> "RECOVERED"]
             ELSE [state |-> st0, ret |-> "False"]

\* a check that counts every status but UP as a failure
is_down_not_up(st) == st # "UP"

\* the is_down argument of should_alert in HealthMonitor.run
is_down(st) == st = "DOWN"

\* the chain with "if alert:" for "if alert is True:": "RECOVERED" is truthy
alert_kind_truthy(ret, st) ==
    IF ret # "False" THEN "DOWN"
    ELSE IF st = "SLOW" THEN "SLOW"
    ELSE "none"

\* the if / elif chain of HealthMonitor.run after should_alert
alert_kind(ret, st) ==
    IF ret = "True" THEN "DOWN"
    ELSE IF ret = "RECOVERED" THEN "RECOVERED"
    ELSE IF st = "SLOW" THEN "SLOW"
    ELSE "none"

\* send_alert without the try / except around the POST
send_alert_raises(post) ==
    [raised |-> (post # "ok"), posts |-> 1, delivered |-> (post = "ok")]

\* SlackAlertHandler.send_alert: one POST; a failure is logged, not raised
send_alert(post) ==
    [raised |-> FALSE, posts |-> 1, delivered |-> (post = "ok")]

NoSend == [raised |-> FALSE, posts |-> 0, delivered |-> FALSE]

\* --------------------------------------------------------- observations
\* what the environment did to the probe, seen from outside the program
ProbeOutcome(result, elapsed) ==
    IF result # "200" THEN "fail"
    ELSE IF elapsed <= MAX_RESPONSE_TIME THEN "success"
    ELSE "slow success"

NoCheck ==
    [key |-> "none", probe |-> "none", elapsed |-> 0, status |-> "none",
     alert |-> "none", post |-> "none", posts |-> 0, before |-> FreshRecord,
     known |-> FALSE]

\* what became of the alert of a check
Delivery(kind, sent) ==
    IF kind = "none" THEN "none"
    ELSE IF sent.delivered THEN "delivered"
    ELSE "failed"

Healthy(rec) == rec.failures = 0 /\ ~rec.alerted

NoLog == [on |-> TRUE, entries |-> <<>>]

\* the log of a key goes on while the probes read fail, ..., fail, success
LogAfter(lg, entry) ==
    IF lg.on /\ (lg.entries = <<>> \/ lg.entries[Len(lg.entries)].outcome = "fail")
    THEN [on |-> TRUE, entries |-> Append(lg.entries, entry)]
    ELSE [on |-> FALSE, entries |-> <<>>]

\* the watched endpoint's DOWN checks in a row, counted from a HEALTHY record
RunDownAfter(n, st, before) ==
    IF st # "DOWN" THEN 0
    ELSE IF Healthy(before) THEN 1
    ELSE IF n > 0 THEN n + 1
    ELSE 0

\* the DOWN alerts attempted in that row
DownAlertsAfter(n, st, before, kind) ==
    LET one == IF kind = "DOWN" THEN 1 ELSE 0
    IN  IF st # "DOWN" THEN 0
        ELSE IF Healthy(before) THEN one
        ELSE Min(n + one, 2)

\* whether a DOWN alert of that row was posted and not delivered
LostAfter(was, st, before, kind, sent) ==
    LET now == kind = "DOWN" /\ ~sent.delivered
    IN  IF st # "DOWN" THEN FALSE
        ELSE IF Healthy(before) THEN now
        ELSE was \/ now

\* the RECOVERED alerts since the latest DOWN alert
SinceDownAfter(n, kind) ==
    IF kind = "DOWN" THEN 0
    ELSE IF kind = "RECOVERED" /\ n >= 0 THEN Min(n + 1, 2)
    ELSE n

\* ---------------------------------------------------------- configuration
\* what the process finds: SLACK_WEBHOOK_URL set or not, the text of
\* ALERT_THRESHOLD an integer or not, servers.json a JSON list or not
Configs ==
    [SLACK_WEBHOOK_URL : {"set", "missing"},
     ALERT_THRESHOLD   : {"integer", "text"},
     servers           : {"list", "undecodable"}]

GoodConfig ==
    [SLACK_WEBHOOK_URL |-> "set", ALERT_THRESHOLD |-> "integer", servers |-> "list"]

\* the module level of 04_project.py raises ValueError: int() of the
\* ALERT_THRESHOLD text, or "SLACK_WEBHOOK_URL not configured"
import_fails(cfg) ==
    cfg.ALERT_THRESHOLD = "text" \/ cfg.SLACK_WEBHOOK_URL = "missing"

\* HealthMonitor.load_servers raises: json.load(f) of servers.json
load_servers_fails(cfg) == cfg.servers = "undecodable"

\* ---------------------------------------------------------------- actions
Init ==
    /\ ALERT_THRESHOLD \in 0..MaxThreshold
    /\ disk = NoFile
    /\ pc = "idle"
    /\ state = EmptyMapping
    /\ servers = <<>>
    /\ i = 1
    /\ last = NoCheck
    /\ watched \in Keys
    /\ run_down = 0
    /\ down_alerts = 0
    /\ since_down = -1
    /\ lost = FALSE
    /\ log = NoLog
    /\ config = GoodConfig
    /\ interrupts = 0

\* python 04_project.py: HealthMonitor() loads the state, run() reads the
\* server list (HealthMonitor.load_servers) and enters the loop
Start ==
    /\ pc \in {"idle", "done", "crashed"}
    /\ ~import_fails(config)
    /\ ~load_servers_fails(config)
    /\ \E list \in ServerLists : servers' = list
    /\ state' = load_state(disk)
    /\ i' = 1
    /\ pc' = "running"
    /\ last' = NoCheck
    /\ UNCHANGED <<config, interrupts, ALERT_THRESHOLD, disk, watched, run_down, down_alerts, since_down, lost, log>>

\* one iteration of the for loop of HealthMonitor.run; with observe, the
\* history of the watched endpoint is kept up
Iteration(observe) ==
    /\ pc = "running"
    /\ i <= Len(servers)
    /\ \E result \in ProbeResults, elapsed \in Elapsed, post \in PostResults :
        LET key    == servers[i]
            probe  == check_server(result, elapsed)
            st     == status(probe.is_up, probe.response_time)
            known  == key \in DOMAIN state
            before == IF known /\ DOMAIN state[key] = DOMAIN FreshRecord
                      THEN state[key] ELSE FreshRecord
            dec    == should_alert(state, ALERT_THRESHOLD, key, is_down(st))
            kind   == alert_kind(dec.ret, st)
            sent   == IF kind = "none" THEN NoSend ELSE send_alert(post)
        IN  /\ st = "DOWN" => before.failures < MaxFailures
            /\ kind = "none" => post = "ok"
            /\ IF probe.raised \/ dec.ret = "KeyError"
               THEN /\ pc' = "crashed"   \* the exception ends the process
                    /\ UNCHANGED <<state, i, last, run_down, down_alerts,
                                   since_down, lost, log>>
               ELSE /\ state' = dec.state
                    /\ pc' = IF sent.raised THEN "crashed" ELSE "running"
                    /\ i' = IF sent.raised THEN i ELSE i + 1
                    /\ last' = IF key = watched
                               THEN [key |-> key, probe |-> result, elapsed |-> elapsed,
                                     status |-> st, alert |-> kind,
                                     post |-> Delivery(kind, sent),
                                     posts |-> sent.posts, before |-> before,
                                     known |-> known]
                               ELSE [NoCheck EXCEPT !.key = key]
                    /\ IF key = watched /\ observe
                       THEN /\ run_down' = RunDownAfter(run_down, st, before)
                            /\ down_alerts' = DownAlertsAfter(down_alerts, st, before, kind)
                            /\ since_down' = SinceDownAfter(since_down, kind)
                            /\ lost' = LostAfter(lost, st, before, kind, sent)
                            /\ log' = LogAfter(log, [outcome |-> ProbeOutcome(result, elapsed),
                                                     status |-> st, alert |-> kind])
                       ELSE UNCHANGED <<run_down, down_alerts, since_down, lost, log>>
    /\ UNCHANGED <<config, interrupts, ALERT_THRESHOLD, disk, servers, watched>>

\* the end of HealthMonitor.run: self.save_state()
Finish ==
    /\ pc = "running"
    /\ i > Len(servers)
    /\ disk' = save_state(state)
    /\ pc' = "done"
    /\ state' = EmptyMapping        \* the process exits
    /\ servers' = <<>>
    /\ i' = 1
    /\ UNCHANGED <<config, interrupts, ALERT_THRESHOLD, last, watched, run_down, down_alerts, since_down, lost, log>>

Check == Iteration(TRUE)

Next == Start \/ Check \/ Finish

Spec == Init /\ [][Next]_vars

\* the program alone, the history of the watched endpoint left out
Step == Iteration(FALSE)

RunNext == Start \/ Step \/ Finish

\* the invariant of a record: alerted only with a positive failure count
\* that has reached the threshold
WellFormed(mapping, threshold) ==
    \A k \in DOMAIN mapping :
        mapping[k].alerted =>
            mapping[k].failures > 0 /\ mapping[k].failures >= threshold

\* the mappings a state file can hold: any keys, any counts up to MaxFailures
Mappings ==
    UNION {[S -> [failures : 0..MaxFailures, alerted : BOOLEAN]] : S \in SUBSET Keys}

\* a first run that finds any well-formed state file, or none
StoreInit ==
    /\ ALERT_THRESHOLD \in 0..MaxThreshold
    /\ disk \in {NoFile} \cup
                {save_state(m) : m \in {x \in Mappings : WellFormed(x, ALERT_THRESHOLD)}}
    /\ pc = "idle"
    /\ state = EmptyMapping
    /\ servers = <<>>
    /\ i = 1
    /\ last = NoCheck
    /\ watched \in Keys
    /\ run_down = 0
    /\ down_alerts = 0
    /\ since_down = -1
    /\ lost = FALSE
    /\ log = NoLog
    /\ config = GoodConfig
    /\ interrupts = 0

StoreSpec == StoreInit /\ [][RunNext]_vars

\* a started process keeps executing: every request has timeout=5, so each
\* iteration and the save are reached
FairSpec == Init /\ [][RunNext]_vars /\ WF_vars(Step) /\ WF_vars(Finish)

\* ------------------------------------------------- any STATE_FILE found
\* a record the Level 2 program (03_project.py) writes to its state.json
Level2Record == [consecutive_failures |-> 1, last_alert_sent |-> "None"]

\* the records of a state file written by any hand: those of should_alert,
\* one without the "alerted" member, one in the Level 2 layout
AnyRecords ==
    {FreshRecord, [failures |-> 1, alerted |-> FALSE], [failures |-> 1], Level2Record}

\* a STATE_FILE whose text does not decode
UndecodableFile == [exists |-> TRUE, text |-> [complete |-> FALSE, members |-> <<>>]]

\* whether a file decodes to a mapping of keys to records of should_alert
FileWellFormed(file) ==
    /\ file.exists
    /\ file.text.complete
    /\ \A k \in DOMAIN file.text.members :
          DOMAIN file.text.members[k] = DOMAIN FreshRecord

\* a first run that finds no state file, an undecodable one, or a JSON
\* object of records in any layout
AnyFileInit ==
    /\ ALERT_THRESHOLD \in 0..MaxThreshold
    /\ disk \in {NoFile, UndecodableFile} \cup
                {save_state(m) : m \in UNION {[S -> AnyRecords] : S \in SUBSET Keys}}
    /\ pc = "idle"
    /\ state = EmptyMapping
    /\ servers = <<>>
    /\ i = 1
    /\ last = NoCheck
    /\ watched \in Keys
    /\ run_down = 0
    /\ down_alerts = 0
    /\ since_down = -1
    /\ lost = FALSE
    /\ log = NoLog
    /\ config = GoodConfig
    /\ interrupts = 0

AnyFileSpec == AnyFileInit /\ [][RunNext]_vars

\* ------------------------------------------------- a long-lived STATE_FILE
\* failure counts of one, two and three digits
WideCounts == {0, 1, 9, 10, 109}

\* the mappings of a state file kept over many runs
WideMappings ==
    UNION {[S -> [failures : WideCounts, alerted : BOOLEAN]] : S \in SUBSET Keys}

\* a run that finds the state file of many earlier runs, or none
RoundTripInit ==
    /\ ALERT_THRESHOLD \in 0..MaxThreshold
    /\ disk \in {NoFile} \cup
                {save_state(m) : m \in {x \in WideMappings : WellFormed(x, ALERT_THRESHOLD)}}
    /\ pc = "idle"
    /\ state = EmptyMapping
    /\ servers = <<>>
    /\ i = 1
    /\ last = NoCheck
    /\ watched \in Keys
    /\ run_down = 0
    /\ down_alerts = 0
    /\ since_down = -1
    /\ lost = FALSE
    /\ log = NoLog
    /\ config = GoodConfig
    /\ interrupts = 0

RoundTripSpec == RoundTripInit /\ [][RunNext]_vars

\* ------------------------------------------------ any configuration found
\* python 04_project.py when the module level raises: nothing of
\* HealthMonitor is reached
Halt ==
    /\ pc \in {"idle", "done", "crashed", "halted"}
    /\ import_fails(config)
    /\ pc' = "halted"
    /\ last' = NoCheck
    /\ UNCHANGED <<config, interrupts, ALERT_THRESHOLD, disk, state, servers, i,
                   watched, run_down, down_alerts, since_down, lost, log>>

\* python 04_project.py when load_servers raises: HealthMonitor() has loaded
\* the state, run() ends at its first statement
LoadServersFails ==
    /\ pc \in {"idle", "done", "crashed"}
    /\ ~import_fails(config)
    /\ load_servers_fails(config)
    /\ state' = load_state(disk)
    /\ pc' = "crashed"
    /\ last' = NoCheck
    /\ UNCHANGED <<config, interrupts, ALERT_THRESHOLD, disk, servers, i,
                   watched, run_down, down_alerts, since_down, lost, log>>

\* a first run in any configuration that finds any well-formed state file,
\* or none
ConfigInit ==
    /\ config \in Configs
    /\ ALERT_THRESHOLD \in 0..MaxThreshold
    /\ disk \in {NoFile} \cup
                {save_state(m) : m \in {x \in Mappings : WellFormed(x, ALERT_THRESHOLD)}}
    /\ pc = "idle"
    /\ state = EmptyMapping
    /\ servers = <<>>
    /\ i = 1
    /\ last = NoCheck
    /\ watched \in Keys
    /\ run_down = 0
    /\ down_alerts = 0
    /\ since_down = -1
    /\ lost = FALSE
    /\ log = NoLog
    /\ interrupts = 0

ConfigNext == Start \/ Step \/ Finish \/ Halt \/ LoadServersFails

ConfigSpec == ConfigInit /\ [][ConfigNext]_vars

\* ---------------------------------------------------- interrupted runs
\* the process is ended from outside (a signal, a reboot, the scheduler's
\* time limit) during the loop of HealthMonitor.run: save_state is never
\* reached and STATE_FILE keeps its text
Interrupt ==
    /\ pc = "running"
    /\ interrupts < MaxInterrupts
    /\ interrupts' = interrupts + 1
    /\ pc' = "crashed"
    /\ state' = EmptyMapping
    /\ servers' = <<>>
    /\ i' = 1
    /\ UNCHANGED <<config, ALERT_THRESHOLD, disk, last, watched, run_down,
                   down_alerts, since_down, lost, log>>

\* the process is ended inside save_state: open(STATE_FILE, "w") has
\* truncated the file and json.dump has not yet written the whole text (any
\* unfinished text fails to decode alike, so the shortest one stands for all)
InterruptedSave ==
    /\ pc = "running"
    /\ i > Len(servers)
    /\ interrupts < MaxInterrupts
    /\ interrupts' = interrupts + 1
    /\ disk' = [exists |-> TRUE, text |-> [complete |-> FALSE, members |-> <<>>]]
    /\ pc' = "crashed"
    /\ state' = EmptyMapping
    /\ servers' = <<>>
    /\ i' = 1
    /\ UNCHANGED <<config, ALERT_THRESHOLD, last, watched, run_down,
                   down_alerts, since_down, lost, log>>

CrashNext == Start \/ Check \/ Finish \/ Interrupt \/ InterruptedSave

\* the default deployment (ALERT_THRESHOLD unset, so 2), runs of which may
\* be interrupted
CrashInit == Init /\ ALERT_THRESHOLD = 2

CrashSpec == CrashInit /\ [][CrashNext]_vars

\* ------------------------------------------------------------ properties
\* the records the program holds: in memory during a run, in STATE_FILE
\* between runs
Records == IF pc = "running" THEN state ELSE load_state(disk)

\* the check at which a row of failures first has failures >= ALERT_THRESHOLD
\* (a threshold below 1 is met by the first failure)
FirstAlertAt == Max(ALERT_THRESHOLD, 1)

CheckedWatched == last.key = watched /\ last.status # "none"

\* C1: over a row of DOWN checks that started from a HEALTHY record there is
\* no DOWN alert before the failure count reaches ALERT_THRESHOLD and exactly
\* one from then on, and the DOWN alert is emitted on the very check at which
\* the count reaches the threshold.
C1_OneDownAlertPerRow ==
    /\ run_down >= 1 =>
          down_alerts = (IF run_down >= FirstAlertAt THEN 1 ELSE 0)
    /\ (CheckedWatched /\ last.status = "DOWN" /\ run_down >= 1) =>
          (last.alert = "DOWN" <=> run_down = FirstAlertAt)

\* with threshold 2: the third failure in a row, after the one DOWN alert
C1_Witness ==
    /\ ALERT_THRESHOLD = 2
    /\ CheckedWatched
    /\ run_down = 3
    /\ down_alerts = 1
    /\ last.alert = "none"

\* C2: on a check that is not DOWN, a RECOVERED alert is emitted if and only
\* if the record had alerted = true just before the check (so a failure row
\* that ends before the threshold produces no alert at all).
C2_RecoveredIffAlerted ==
    (CheckedWatched /\ last.status # "DOWN") =>
        (last.alert = "RECOVERED" <=> last.before.alerted)

\* C3: a check that is not DOWN on an alerted record emits RECOVERED, and
\* after a DOWN alert at most one RECOVERED alert is emitted until the next
\* DOWN alert.
C3_OneRecoveredPerDownAlert ==
    /\ (CheckedWatched /\ last.status # "DOWN" /\ last.before.alerted) =>
          last.alert = "RECOVERED"
    /\ since_down <= 1

\* what a run saves is what it held in memory, the file changes at the end
\* of a run only, and the next run starts from what the file holds
SavedIsLoaded ==
    [][ /\ (pc = "running" /\ pc' = "done") => load_state(disk') = state
        /\ pc' # "done" => disk' = disk
        /\ (pc # "running" /\ pc' = "running") => state' = load_state(disk)
      ]_vars

\* a run that starts from a record already alerted emits no DOWN alert for
\* further failures; after a run the file holds the failure row and whether
\* its DOWN alert was emitted, as observed from outside
DedupAcrossRuns ==
    /\ (pc = "running" /\ CheckedWatched /\ last.status = "DOWN"
          /\ watched \in DOMAIN load_state(disk)
          /\ load_state(disk)[watched].alerted) => last.alert = "none"
    /\ (pc = "done" /\ watched \in DOMAIN load_state(disk)) =>
          /\ load_state(disk)[watched].failures = run_down
          /\ load_state(disk)[watched].alerted = (down_alerts = 1)
    /\ down_alerts <= 1

\* C4: the record a run saves is the record the next run starts from, so a
\* failure row that spans several runs gets one DOWN alert in all, in the run
\* in which the saved failure count reaches ALERT_THRESHOLD, and none in a
\* later run of the same row.
C4_RestartDedup == SavedIsLoaded /\ []DedupAcrossRuns

\* a run that found the record alerted on disk sees one more failure
C4_Witness ==
    /\ pc = "running"
    /\ CheckedWatched
    /\ last.status = "DOWN"
    /\ last.alert = "none"
    /\ watched \in DOMAIN load_state(disk)
    /\ load_state(disk)[watched].alerted
    /\ down_alerts = 1

\* C5: from no state file or any well-formed one, every record with
\* alerted = true has a failure count that is positive and at least
\* ALERT_THRESHOLD, in memory and in the file.
C5_AlertedImpliesFailing ==
    /\ WellFormed(state, ALERT_THRESHOLD)
    /\ WellFormed(load_state(disk), ALERT_THRESHOLD)

\* a record found unalerted above the threshold fails once more and is
\* alerted
C5_Witness ==
    /\ CheckedWatched
    /\ pc = "running"
    /\ last.known
    /\ ~last.before.alerted
    /\ last.before.failures > ALERT_THRESHOLD
    /\ last.alert = "DOWN"
    /\ state[watched].alerted
    /\ state[watched].failures = last.before.failures + 1

\* C6: an endpoint with no record, threshold t >= 2, probes fail^k (k >= t)
\* then one success within the SLA limit: the classifications are DOWN^k, UP,
\* the alerts none^(t-1), DOWN, none^(k-t), RECOVERED, and the record ends
\* with failures = 0 and alerted = false.
C6_ReferenceScenario ==
    LET e == log.entries
        n == Len(e)
        t == ALERT_THRESHOLD
    IN  (/\ log.on
         /\ t >= 2
         /\ n >= t + 1
         /\ \A j \in 1..(n - 1) : e[j].outcome = "fail"
         /\ e[n].outcome = "success") =>
            /\ \A j \in 1..(n - 1) :
                  /\ e[j].status = "DOWN"
                  /\ e[j].alert = (IF j = t THEN "DOWN" ELSE "none")
            /\ e[n].status = "UP"
            /\ e[n].alert = "RECOVERED"
            /\ watched \in DOMAIN Records
            /\ Records[watched] = [failures |-> 0, alerted |-> FALSE]

\* the scenario of the specification: threshold 2, fail, fail, fail, success
C6_Witness ==
    /\ ALERT_THRESHOLD = 2
    /\ log.on
    /\ Len(log.entries) = 4
    /\ \A j \in 1..3 : log.entries[j].outcome = "fail"
    /\ log.entries[4].outcome = "success"

\* C7: every check classified SLOW emits a SLOW alert, whatever the record
\* was before the check.
C7_SlowAlwaysAlerts ==
    (CheckedWatched /\ last.status = "SLOW") => last.alert = "SLOW"

\* C8: a failed probe is DOWN whatever its elapsed time, a successful probe
\* at exactly the SLA limit is UP, one above the limit is SLOW, and every
\* probe gets one of UP, SLOW, DOWN.
C8_Classification ==
    CheckedWatched =>
        /\ last.status \in {"UP", "SLOW", "DOWN"}
        /\ last.probe # "200" => last.status = "DOWN"
        /\ (last.probe = "200" /\ last.elapsed = MAX_RESPONSE_TIME) =>
              last.status = "UP"
        /\ (last.probe = "200" /\ last.elapsed > MAX_RESPONSE_TIME) =>
              last.status = "SLOW"

\* a successful probe that took exactly the SLA limit
C8_Witness ==
    /\ CheckedWatched
    /\ last.probe = "200"
    /\ last.elapsed = MAX_RESPONSE_TIME
    /\ last.status = "UP"

\* C9: a run that has started probing goes on to the save, whatever the
\* probes and the deliveries do, and the save comes only after the last
\* server of the list.
C9_RunCompletes ==
    /\ (pc = "running") ~> (pc = "done")
    /\ [][pc' = "done" => (pc = "running" /\ i = Len(servers) + 1
                            /\ disk' = save_state(state))]_vars

\* a run whose last check had the probe time out and the alert not delivered
C9_Witness ==
    /\ pc = "done"
    /\ last.probe = "timeout"
    /\ last.alert = "DOWN"
    /\ last.post = "failed"

\* C10: the record after a check that raised an alert is the committed
\* transition whether the POST succeeded or failed, the run goes on, the
\* alert is posted once, and neither that run nor a later one posts the DOWN
\* alert of a failure row again even when its delivery failed; after a
\* RECOVERED alert the record is HEALTHY, from which a check that is not DOWN
\* posts no RECOVERED alert.
C10_DeliveryIndependent ==
    /\ (CheckedWatched /\ last.alert # "none") =>
          /\ pc \in {"running", "done"}
          /\ last.posts = 1
          /\ last.post \in {"delivered", "failed"}
          /\ last.alert = "DOWN" =>
                /\ Records[watched].alerted
                /\ Records[watched].failures = last.before.failures + 1
          /\ last.alert = "RECOVERED" => Healthy(Records[watched])
    /\ lost => down_alerts = 1
    /\ (CheckedWatched /\ last.status # "DOWN" /\ Healthy(last.before)) =>
          last.alert # "RECOVERED"

\* a later run sees one more failure of a row whose DOWN alert was lost
C10_Witness ==
    /\ lost
    /\ pc = "running"
    /\ CheckedWatched
    /\ last.status = "DOWN"
    /\ last.alert = "none"
    /\ watched \in DOMAIN load_state(disk)
    /\ load_state(disk)[watched].alerted

\* C11: a run that is interrupted at any point leaves a state file the next
\* run loads as the mapping before the run or as the fully updated mapping,
\* never a partial text, and the next run repeats no DOWN alert already
\* emitted for the same row of failures
C11_InterruptedRunKeepsStore ==
    /\ [][(pc = "running" /\ pc' = "crashed") =>
            load_state(disk') \in {load_state(disk), state}]_vars
    /\ [](down_alerts <= 1)

\* C12: loading never fails and degrades to empty: when STATE_FILE is absent,
\* does not decode, or decodes to something that is not a mapping of keys to
\* well-formed records, the run starts from the empty mapping
C12_LoadDegradesToEmpty ==
    [][(pc # "running" /\ pc' = "running" /\ ~FileWellFormed(disk)) =>
          state' = EmptyMapping]_vars

\* C18: a check of an endpoint whose record lacks the failure count or the
\* alerted member does not fail: the record is treated as a fresh HEALTHY
\* record and the run goes on
C18_MalformedRecordHeals ==
    [][(/\ pc = "running"
        /\ i <= Len(servers)
        /\ servers[i] \in DOMAIN state
        /\ DOMAIN state[servers[i]] # DOMAIN FreshRecord) =>
          /\ pc' = "running"
          /\ LET fresh == [state EXCEPT ![servers[i]] = FreshRecord]
             IN  \E down \in BOOLEAN :
                   state' = should_alert(fresh, ALERT_THRESHOLD, servers[i], down).state]_vars

\* C13: with SLACK_WEBHOOK_URL missing the process halts before any endpoint
\* is probed, any alert is emitted and the state is read or written; and a
\* missing SLACK_WEBHOOK_URL is the only condition that stops a run before
\* its first probe
C13_OnlyMissingUrlStops ==
    /\ [](config.SLACK_WEBHOOK_URL = "missing" =>
            /\ pc \in {"idle", "halted"}
            /\ state = EmptyMapping
            /\ last = NoCheck)
    /\ [][config.SLACK_WEBHOOK_URL = "missing" => disk' = disk]_vars
    /\ []((pc \in {"halted", "crashed"} /\ last = NoCheck) =>
            config.SLACK_WEBHOOK_URL = "missing")

\* C14: the state file round-trips: a file saved from a well-formed mapping m
\* loads as m; saving what was loaded gives a file that denotes the mapping
\* the file denoted before; and a run over an empty endpoint list leaves the
\* mapping in the file as it was
C14_StateRoundTrip ==
    [][/\ (pc = "idle" /\ pc' = "running") =>
            /\ \A m \in WideMappings : disk = save_state(m) => state' = m
            /\ load_state(save_state(state')) = load_state(disk)
       /\ (pc = "running" /\ pc' = "done" /\ servers = <<>>) =>
            load_state(disk') = load_state(disk)]_vars

\* a run over an empty list has ended on a file with a three-digit count
\* and one with alerted = false
C14_Witness ==
    /\ pc = "done"
    /\ last = NoCheck
    /\ DOMAIN load_state(disk) = Keys
    /\ load_state(disk)[watched] = [failures |-> 109, alerted |-> TRUE]
    /\ \E k \in Keys : load_state(disk)[k] = [failures |-> 10, alerted |-> FALSE]

\* C15: right after a check classified UP or SLOW the record of the endpoint
\* has failures = 0 and alerted = false, whatever count and flag it held
\* before, and no step resets one of the two without the other
C15_RecoveryResets ==
    /\ []((CheckedWatched /\ last.status \in {"UP", "SLOW"}) =>
            /\ watched \in DOMAIN Records
            /\ Records[watched] = FreshRecord)
    /\ [][\A k \in DOMAIN state \cap DOMAIN state' :
            /\ (state[k].failures > 0 /\ state'[k].failures = 0) => ~state'[k].alerted
            /\ (state[k].alerted /\ ~state'[k].alerted) => state'[k].failures = 0]_vars

\* a SLOW check of an endpoint whose record was alerted, with a count above
\* the threshold
C15_Witness ==
    /\ CheckedWatched
    /\ pc = "running"
    /\ last.status = "SLOW"
    /\ last.known
    /\ last.before.alerted
    /\ last.before.failures > ALERT_THRESHOLD
    /\ state[watched] = FreshRecord

\* the latest check was of the watched endpoint and found it without a
\* record or with a failure count of 0
CheckedHealthy == CheckedWatched /\ last.before.failures = 0

\* C16 as stated: from no record or failures = 0, a DOWN check sets failures
\* to 1 and emits no alert, an UP or SLOW check leaves failures at 0 and
\* emits neither DOWN nor RECOVERED, for every ALERT_THRESHOLD
C16_HealthyRowAnyThreshold ==
    CheckedHealthy =>
        /\ watched \in DOMAIN Records
        /\ last.status = "DOWN" =>
              Records[watched].failures = 1 /\ last.alert = "none"
        /\ last.status # "DOWN" =>
              Records[watched].failures = 0 /\ last.alert \notin {"DOWN", "RECOVERED"}

\* C16, amended: from no record or failures = 0, a DOWN check sets failures
\* to 1; it emits no alert when ALERT_THRESHOLD >= 2, and sets alerted and
\* emits the DOWN alert when ALERT_THRESHOLD <= 1; an UP or SLOW check leaves
\* failures at 0 and emits neither DOWN nor RECOVERED
C16_HealthyRow ==
    CheckedHealthy =>
        /\ watched \in DOMAIN Records
        /\ last.status = "DOWN" =>
              /\ Records[watched].failures = 1
              /\ Records[watched].alerted = (ALERT_THRESHOLD <= 1)
              /\ last.alert = (IF ALERT_THRESHOLD <= 1 THEN "DOWN" ELSE "none")
        /\ last.status # "DOWN" =>
              /\ Records[watched] = FreshRecord
              /\ last.alert \notin {"DOWN", "RECOVERED"}

\* the first check of an endpoint finds it DOWN under a threshold of 1
C16_Witness ==
    /\ ALERT_THRESHOLD = 1
    /\ CheckedHealthy
    /\ ~last.known
    /\ last.status = "DOWN"
    /\ last.alert = "DOWN"

\* C17: a check classified SLOW never increments the failure count and never
\* sets alerted, and it leaves the record an UP check leaves from the same
\* prior record
C17_SlowOutsideStateMachine ==
    (CheckedWatched /\ last.status = "SLOW") =>
        /\ watched \in DOMAIN Records
        /\ Records[watched].failures <= last.before.failures
        /\ Records[watched].alerted => last.before.alerted
        /\ Records[watched] =
             should_alert(watched :> last.before, ALERT_THRESHOLD, watched,
                          is_down("UP")).state[watched]

\* a SLOW check of an endpoint that had failed below the threshold
C17_Witness ==
    /\ CheckedWatched
    /\ last.status = "SLOW"
    /\ last.known
    /\ last.before.failures > 0
    /\ ~last.before.alerted
    /\ pc = "done"
    /\ load_state(disk)[watched] = FreshRecord

\* C19: within a run the state is loaded once, before the first probe; the
\* loop neither saves nor reloads between two checks and keeps every record
\* it does not check; the only save comes after the last endpoint of the list
\* and writes the mapping with every mutation of the run
C19_PersistenceOrdering ==
    [][/\ (pc # "running" /\ pc' = "running") =>
            /\ state' = load_state(disk)
            /\ i' = 1
            /\ last' = NoCheck
            /\ disk' = disk
       /\ (pc = "running" /\ pc' = "running") =>
            /\ disk' = disk
            /\ i <= Len(servers)
            /\ i' = i + 1
            /\ servers' = servers
            /\ servers[i] \in DOMAIN state'
            /\ \A k \in DOMAIN state :
                  k \in DOMAIN state' /\ (k # servers[i] => state'[k] = state[k])
       /\ (pc = "running" /\ pc' # "running") =>
            /\ pc' = "done"
            /\ i = Len(servers) + 1
            /\ disk' = save_state(state)
            /\ load_state(disk') = state
       /\ (pc # "running" /\ pc' # "running") => disk' = disk]_vars

\* a run of two endpoints has ended: the watched one, checked last, was
\* alerted DOWN, and the file holds the records of both
C19_Witness ==
    /\ pc = "done"
    /\ CheckedWatched
    /\ last.alert = "DOWN"
    /\ DOMAIN load_state(disk) = Keys
    /\ load_state(disk)[watched].alerted
    /\ \E k \in Keys : load_state(disk)[k] = FreshRecord

\* C20: with ALERT_THRESHOLD >= 1 and an empty store at the start, every
\* record in memory and in the file has alerted = (failures >= threshold):
\* it is HEALTHY, FAILING_UNALERTED or FAILING_ALERTED, and no record has
\* reached the threshold without alerted
C20_AlertedIffAtThreshold ==
    ALERT_THRESHOLD >= 1 =>
        /\ \A k \in DOMAIN state :
              state[k].alerted = (state[k].failures >= ALERT_THRESHOLD)
        /\ \A k \in DOMAIN load_state(disk) :
              load_state(disk)[k].alerted =
                 (load_state(disk)[k].failures >= ALERT_THRESHOLD)

\* the file holds one record at the threshold, alerted, and one record one
\* failure below it, not alerted
C20_Witness ==
    /\ ALERT_THRESHOLD = 3
    /\ pc = "done"
    /\ DOMAIN load_state(disk) = Keys
    /\ load_state(disk)[watched] = [failures |-> 3, alerted |-> TRUE]
    /\ \E k \in Keys : load_state(disk)[k] = [failures |-> 2, alerted |-> FALSE]

\* C21: one check of one endpoint emits at most one alert, with one POST: a
\* DOWN alert only on a check classified DOWN, a RECOVERED alert only on a
\* check not classified DOWN, a SLOW alert only on a check classified SLOW,
\* and a check classified UP on a record with no failures emits none
C21_OneAlertPerCheck ==
    CheckedWatched =>
        /\ last.alert \in {"none", "DOWN", "RECOVERED", "SLOW"}
        /\ last.posts = (IF last.alert = "none" THEN 0 ELSE 1)
        /\ last.alert = "DOWN" => last.status = "DOWN"
        /\ last.alert = "RECOVERED" => last.status \in {"UP", "SLOW"}
        /\ last.alert = "SLOW" => last.status = "SLOW"
        /\ (last.status = "UP" /\ last.before.failures = 0) =>
              last.alert = "none" /\ last.post = "none"

\* a SLOW check of an alerted endpoint: the recovery and the slow response
\* meet in one check, and one alert is emitted
C21_Witness ==
    /\ CheckedWatched
    /\ last.status = "SLOW"
    /\ last.before.alerted
    /\ last.alert = "RECOVERED"
    /\ last.posts = 1

\* C22: a check of an endpoint reads and changes only the record under the
\* key of that endpoint: every other record stays as it is and the new
\* record is the one the decision makes of the old record alone; and the
\* save at the end of the run writes every record, those of keys outside the
\* current endpoint list as they were loaded
C22_EndpointIsolation ==
    [][/\ (pc = "running" /\ pc' = "running") =>
            /\ DOMAIN state' = DOMAIN state \cup {servers[i]}
            /\ \A k \in DOMAIN state \ {servers[i]} : state'[k] = state[k]
            /\ LET key  == servers[i]
                   only == [k \in DOMAIN state \cap {key} |-> state[k]]
               IN  \E down \in BOOLEAN :
                     state'[key] =
                        should_alert(only, ALERT_THRESHOLD, key, down).state[key]
       /\ (pc = "running" /\ pc' = "done") =>
            /\ DOMAIN load_state(disk') = DOMAIN state
            /\ DOMAIN load_state(disk) \subseteq DOMAIN load_state(disk')
            /\ \A k \in DOMAIN state : load_state(disk')[k] = state[k]
            /\ \A k \in DOMAIN load_state(disk) :
                  (\A n \in 1..Len(servers) : servers[n] # k) =>
                     load_state(disk')[k] = load_state(disk)[k]]_vars

\* the run checks the watched endpoint only and has found it DOWN, while the
\* loaded record of the other endpoint, alerted, is as it was in the file
C22_Witness ==
    /\ pc = "running"
    /\ servers = <<watched>>
    /\ i = 2
    /\ CheckedWatched
    /\ last.status = "DOWN"
    /\ \E k \in Keys \ {watched} :
          /\ k \in DOMAIN state
          /\ state[k].alerted
          /\ state[k] = load_state(disk)[k]

====
